---- MODULE Spec2Model ----
(***************************************************************************)
(* The energy based QRS detector of pebm (pebm/ebm/FiducialPoints.py):     *)
(* calculate_jqrs, its callers FiducialPoints.jqrs and the constructor,    *)
(* the sibling calculate_xqrs with FiducialPoints.xqrs, and the process    *)
(* state they share: the working directory, the temporary directories and  *)
(* the two files of the WFDB record temp.                                  *)
(*                                                                         *)
(* Arrays are functions on 0..n-1, indexed as the numpy arrays of the      *)
(* source.  Samples are integers; the threshold coefficient thr and the    *)
(* refractory period rp are rationals [num, den]; a time in seconds is its *)
(* number of samples over fs.                                              *)
(***************************************************************************)
EXTENDS Integers, Sequences, FiniteSets, TLC

\* ------------------------------------------------------------ numpy helpers

Size(a) == Cardinality(DOMAIN a)

Idx(n) == 0 .. (n - 1)

Empty == [i \in {} |-> 0]

Abs(x) == IF x < 0 THEN -x ELSE x

\* np.round of the rational num/den, den > 0: halves go to the even integer
RoundHalfEven(num, den) ==
    LET q == num \div den
        r == num % den
    IN  IF 2 * r < den THEN q
        ELSE IF 2 * r > den THEN q + 1
        ELSE IF q % 2 = 0 THEN q ELSE q + 1

\* math.ceil(x / 2)
CeilHalf(x) == (x + 1) \div 2

\* x > (num / den) * y, den > 0, x >= 0, y >= 0: the comparison of an energy
\* with thr * en_thres, carried out exactly and inside the 32-bit integers
GtRat(x, num, den, y) ==
    LET q == y \div den
        r == y % den
        t == x - num * q
        a == Abs(num)
    IN  IF a = 0 THEN t > 0
        ELSE IF t >= a THEN TRUE
        ELSE IF t <= -a THEN FALSE
        ELSE den * t > num * r

\* np.sort(vals[K])[r]: the value of rank r among the entries of vals at K
SortedAt(vals, K, r) ==
    CHOOSE v \in {vals[k] : k \in K} :
        /\ Cardinality({k \in K : vals[k] < v}) <= r
        /\ r < Cardinality({k \in K : vals[k] <= v})

\* np.sort
Sort(a) == [r \in DOMAIN a |-> SortedAt(a, DOMAIN a, r)]

\* np.median over the entries of vals at K, as [nan, twice]: numpy gives nan
\* (and a warning, no error) for no entries, the mean of the two middle
\* entries for an even count; twice the median is kept, an integer
Median(vals, K) ==
    LET m == Cardinality(K)
    IN  IF m = 0 THEN [nan |-> TRUE, twice |-> 0]
        ELSE IF m % 2 = 1
             THEN [nan |-> FALSE, twice |-> 2 * SortedAt(vals, K, (m - 1) \div 2)]
             ELSE [nan |-> FALSE,
                   twice |-> SortedAt(vals, K, m \div 2 - 1) + SortedAt(vals, K, m \div 2)]

\* np.where(mask)[0] for a set of indices: the indices in ascending order
Where(S) ==
    [k \in Idx(Cardinality(S)) |-> CHOOSE x \in S : Cardinality({y \in S : y < x}) = k]

\* np.delete(a, k), 0 <= k < len(a)
Delete(a, k) == [i \in Idx(Size(a) - 1) |-> IF i < k THEN a[i] ELSE a[i + 1]]

\* np.diff
Diff(a) == [i \in Idx(Size(a) - 1) |-> a[i + 1] - a[i]]

\* np.square
Square(a) == [i \in DOMAIN a |-> a[i] * a[i]]

RECURSIVE SumBack(_, _, _)
SumBack(x, i, k) == IF k = 0 \/ i < 0 THEN 0 ELSE x[i] + SumBack(x, i - 1, k - 1)

\* sc_signal.lfilter(np.ones(w), 1, x): the causal moving sum over w samples,
\* from zero initial conditions
LFilterOnes(w, x) == [i \in DOMAIN x |-> SumBack(x, i, w)]

\* np.roll(a, -d)
RollLeft(a, d) ==
    LET n == Size(a) IN [i \in DOMAIN a |-> a[(i + d) % n]]

\* np.argmax(np.abs(a[l : r + 1])): the first index of the largest magnitude
ArgMaxAbs(a, l, r) ==
    (CHOOSE i \in l .. r :
        /\ \A k \in l .. r : Abs(a[k]) <= Abs(a[i])
        /\ \A k \in l .. (i - 1) : Abs(a[k]) < Abs(a[i])) - l

\* np.argmax(a[l : r + 1])
ArgMax(a, l, r) ==
    (CHOOSE i \in l .. r :
        /\ \A k \in l .. r : a[k] <= a[i]
        /\ \A k \in l .. (i - 1) : a[k] < a[i]) - l

\* np.argmin(a[l : r + 1])
ArgMin(a, l, r) ==
    (CHOOSE i \in l .. r :
        /\ \A k \in l .. r : a[k] >= a[i]
        /\ \A k \in l .. (i - 1) : a[k] > a[i]) - l

\* ------------------------------------------- the WFDB record written and read

\* the value the WFDB convention reserves for "no data" (line 302)
Sentinel == -32768

\* fmt=["16"]: 16-bit two's complement samples
FmtBits == 16

\* the digital range of the format; its lowest code is kept for NaN
DigMax == 2 ^ (FmtBits - 1) - 1
DigMin == -(2 ^ (FmtBits - 1)) + 1

ArrMin(a) == CHOOSE v \in {a[i] : i \in DOMAIN a} : \A i \in DOMAIN a : v <= a[i]
ArrMax(a) == CHOOSE v \in {a[i] : i \in DOMAIN a} : \A i \in DOMAIN a : v >= a[i]

\* wfdb.wrsamp(p_signal=...) without adc_gain or baseline: the gain gN/gD and
\* the integer baseline that map the signal's range onto the digital range
AdcParams(p) ==
    LET lo == ArrMin(p)
        hi == ArrMax(p)
        range == hi - lo
        b0num == DigMin * range - (DigMax - DigMin) * lo
        baseline == IF lo > 0 THEN -((-b0num) \div range) ELSE b0num \div range
    IN  IF lo = hi
        THEN IF lo = 0 THEN [gN |-> 1, gD |-> 1, baseline |-> 1]
             ELSE [gN |-> 1, gD |-> Abs(lo), baseline |-> 0]
        ELSE IF DigMin = baseline
             THEN [gN |-> DigMax - DigMin, gD |-> range, baseline |-> baseline]
             ELSE IF lo < 0
                  THEN [gN |-> baseline - DigMin, gD |-> -lo, baseline |-> baseline]
                  ELSE [gN |-> DigMin - baseline, gD |-> lo, baseline |-> baseline]

\* the samples stored in the record: round(p * gain + baseline)
Adc(p) ==
    LET g == AdcParams(p)
    IN  [i \in DOMAIN p |-> RoundHalfEven(p[i] * g.gN, g.gD) + g.baseline]

\* the header file temp.hea wfdb.wrsamp writes for the signal p: the gain,
\* the baseline and the number of samples
Header(p) ==
    LET g == AdcParams(p)
    IN  [present |-> TRUE, gN |-> g.gN, gD |-> g.gD, baseline |-> g.baseline,
         sig_len |-> Size(p)]

\* the samples file temp.dat wfdb.wrsamp writes for the signal p
Dat(p) == [present |-> TRUE, d |-> Adc(p)]

\* a header file and a samples file that do not exist
NoHea == [present |-> FALSE, gN |-> 1, gD |-> 1, baseline |-> 0, sig_len |-> 0]
NoDat == [present |-> FALSE, d |-> Empty]

\* wfdb.rdrecord(...).p_signal[:, 0] from a header and a samples file:
\* (d - baseline) / gain for the sig_len samples the header announces
Dac(hea, dat) ==
    [i \in Idx(hea.sig_len) |-> ((dat.d[i] - hea.baseline) * hea.gD) \div hea.gN]

\* the samples file holds the samples the header announces and the signal
\* read is integer valued
DacExact(hea, dat) ==
    /\ Size(dat.d) = hea.sig_len
    /\ \A i \in Idx(hea.sig_len) : ((dat.d[i] - hea.baseline) * hea.gD) % hea.gN = 0

\* the record read back is exact when every stored sample divides by the gain
RoundTripExact(p) == DacExact(Header(p), Dat(p))

\* the signal after wfdb.wrsamp and wfdb.rdrecord of its own record
WfdbRoundTrip(p) == IF Size(p) = 0 THEN p ELSE Dac(Header(p), Dat(p))

\* ------------------------------------------------- the stages of the detector

\* INT_NB_COEFF = int(np.round(7 * fs / 256))
INT_NB_COEFF(fs) == RoundHalfEven(7 * fs, 256)

\* lines 289-298: differentiate, square, integrate, remove the filter delay
Energy(ecg, fs) ==
    LET w == INT_NB_COEFF(fs)
        dffecg == Diff(ecg)
        sqrecg == Square(dffecg)
        intecg == LFilterOnes(w, sqrecg)
        delay == CeilHalf(w)
    IN  RollLeft(intecg, delay)

\* np.where(ecg == -32768)
SentinelWhere(ecg) == {i \in DOMAIN ecg : ecg[i] = Sentinel}

\* np.delete(mdfint_temp, np.where(ecg == -32768)) raises IndexError for an
\* index past the end of the envelope, which is one sample shorter than ecg
DeleteRaises(mdfint, ecg) == \E i \in SentinelWhere(ecg) : i >= Size(mdfint)

\* mdfint_temp_: the envelope without the sentinel positions (line 301)
MdfintExcluded(mdfint, ecg) ==
    LET keep == Where(DOMAIN mdfint \ SentinelWhere(ecg))
    IN  [k \in DOMAIN keep |-> mdfint[keep[k]]]

\* ind_xs = int(np.round(98 / 100 * len(xs)))
IndXs(n) == RoundHalfEven(98 * n, 100)

\* xs = np.sort(mdfint_temp): the whole envelope, not mdfint_temp_
Xs(mdfint) == Sort(mdfint)

\* poss_reg = mdfint > thr * en_thres
PossReg(mdfint, thr, en_thres) ==
    [i \in DOMAIN mdfint |-> GtRat(mdfint[i], thr.num, thr.den, en_thres)]

\* indAboveThreshold = np.where(poss_reg)[0]
IndAbove(mask) == Where({i \in DOMAIN mask : mask[i]})

\* RRv = np.diff(tm[0, indAboveThreshold]), in samples (tm[i] = (i + 1) / fs)
RRv(mask) == Diff(IndAbove(mask))

\* medRRv = np.median(RRv[RRv > 0.01])
MedRRv(mask, fs) ==
    LET rr == RRv(mask)
    IN  Median(rr, {k \in DOMAIN rr : 100 * rr[k] > fs})

\* indMissedBeat = np.where(RRv > 1.5 * medRRv)[0]; nothing exceeds nan
IndMissedBeat(mask, fs) ==
    LET rr == RRv(mask)
        med == MedRRv(mask, fs)
    IN  Where({k \in DOMAIN rr : ~med.nan /\ 4 * rr[k] > 3 * med.twice})

\* mdfint[i] > 0.25 * thr * en_thres
Lowered(mdfint, thr, en_thres, i) ==
    GtRat(mdfint[i], thr.num, 4 * thr.den, en_thres)

\* the loop of lines 323-327 from its i-th pass on: each pass assigns the
\* lowered-threshold test to poss_reg[indStart[i] : indEnd[i]]
RECURSIVE SearchBackLoop(_, _, _, _, _, _, _)
SearchBackLoop(mask, i, indStart, indEnd, mdfint, thr, en_thres) ==
    IF i >= Size(indStart) THEN mask
    ELSE SearchBackLoop(
            [k \in DOMAIN mask |->
                IF indStart[i] <= k /\ k < indEnd[i]
                THEN Lowered(mdfint, thr, en_thres, k)
                ELSE mask[k]],
            i + 1, indStart, indEnd, mdfint, thr, en_thres)

\* the search back as a global change of threshold: once a gap is flagged,
\* the lowered threshold is applied to the whole envelope
SearchBackGlobal(mask, mdfint, thr, en_thres, fs) ==
    IF Size(IndMissedBeat(mask, fs)) = 0 THEN mask
    ELSE [k \in DOMAIN mask |-> Lowered(mdfint, thr, en_thres, k)]

\* lines 313-327: the search back over the gaps longer than 1.5 medians
SearchBack(mask, mdfint, thr, en_thres, fs) ==
    LET above == IndAbove(mask)
        missed == IndMissedBeat(mask, fs)
        indStart == [i \in DOMAIN missed |-> above[missed[i]]]
        indEnd == [i \in DOMAIN missed |-> above[missed[i] + 1]]
    IN  SearchBackLoop(mask, 0, indStart, indEnd, mdfint, thr, en_thres)

\* left: the rising edges of the mask padded with a zero at its start
Left(mask) ==
    Where({i \in DOMAIN mask : mask[i] /\ (i = 0 \/ ~mask[i - 1])})

\* right: the falling edges of the mask padded with a zero at its end
Right(mask) ==
    Where({i \in DOMAIN mask : mask[i] /\ (i = Size(mask) - 1 \/ ~mask[i + 1])})

\* loc[0, j] = np.argmax(np.abs(ecg[left[j] : right[j] + 1])) + left[j],
\* for j < nb_s = len(left < 30 * fs) = len(left)
Loc(ecg, left, right) ==
    [j \in DOMAIN left |-> ArgMaxAbs(ecg, left[j], right[j]) + left[j]]

\* sign = np.median(ecg[loc])
Sign(ecg, left, right) ==
    LET loc == Loc(ecg, left, right)
    IN  Median([j \in DOMAIN loc |-> ecg[loc[j]]], DOMAIN loc)

\* sign > 0 (false for nan)
Positive(sign) == ~sign.nan /\ sign.twice > 0

\* maxval = np.zeros([NB_PEAKS]), maxloc = np.zeros([NB_PEAKS]), compt = 0
LoopInit(nb) ==
    [compt |-> 0, maxval |-> [i \in Idx(nb) |-> 0], maxloc |-> [i \in Idx(nb) |-> 0]]

\* the refractory test with the period left in seconds: the distance in
\* samples compared with rp instead of fs * rp
RefractoryInSeconds(maxloc, compt, fs, rp) ==
    (maxloc[compt] - maxloc[compt - 1]) * rp.den < rp.num

\* maxloc[compt] - maxloc[compt - 1] < fs * rp
Refractory(maxloc, compt, fs, rp) ==
    (maxloc[compt] - maxloc[compt - 1]) * rp.den < fs * rp.num

\* the pass with the second deletion at compt instead of compt - 1: the
\* earlier peak is kept where the later, at least as large one should be
PeakStepKeepsEarlier(st, j, ecg, left, right, sign, fs, rp) ==
    LET l == left[j]
        r == right[j]
        off == IF Positive(sign) THEN ArgMax(ecg, l, r) ELSE ArgMin(ecg, l, r)
        c == st.compt
        mv == [st.maxval EXCEPT ![c] = ecg[l + off]]
        ml == [st.maxloc EXCEPT ![c] = off + l]
    IN  IF c > 0 /\ Refractory(ml, c, fs, rp)
        THEN [compt |-> c, maxval |-> Delete(mv, c), maxloc |-> Delete(ml, c)]
        ELSE [compt |-> c + 1, maxval |-> mv, maxloc |-> ml]

\* one pass of the loop of lines 346-372, for region j
PeakStep(st, j, ecg, left, right, sign, fs, rp) ==
    LET l == left[j]
        r == right[j]
        off == IF Positive(sign) THEN ArgMax(ecg, l, r) ELSE ArgMin(ecg, l, r)
        c == st.compt
        mv == [st.maxval EXCEPT ![c] = ecg[l + off]]
        ml == [st.maxloc EXCEPT ![c] = off + l]
    IN  IF c > 0
        THEN IF Refractory(ml, c, fs, rp) /\ Abs(mv[c]) < Abs(mv[c - 1])
             THEN [compt |-> c, maxval |-> Delete(mv, c), maxloc |-> Delete(ml, c)]
             ELSE IF Refractory(ml, c, fs, rp) /\ Abs(mv[c]) >= Abs(mv[c - 1])
                  THEN [compt |-> c, maxval |-> Delete(mv, c - 1),
                        maxloc |-> Delete(ml, c - 1)]
                  ELSE [compt |-> c + 1, maxval |-> mv, maxloc |-> ml]
        ELSE [compt |-> c + 1, maxval |-> mv, maxloc |-> ml]

RECURSIVE PeakLoop(_, _, _, _, _, _, _, _)
PeakLoop(st, j, ecg, left, right, sign, fs, rp) ==
    IF j >= Size(left) THEN st
    ELSE PeakLoop(PeakStep(st, j, ecg, left, right, sign, fs, rp), j + 1,
                  ecg, left, right, sign, fs, rp)

\* calculate_jqrs from the record read back to its return: the peaks, or the
\* exception it ends with
Detect(ecg, fs, thr, rp) ==
    LET mdfint == Energy(ecg, fs)
        xs == Xs(mdfint)
        ind_xs == IndXs(Size(xs))
        en_thres == xs[ind_xs]
        mask == SearchBack(PossReg(mdfint, thr, en_thres), mdfint, thr, en_thres, fs)
        left == Left(mask)
        right == Right(mask)
        sign == Sign(ecg, left, right)
        st == PeakLoop(LoopInit(Size(left)), 0, ecg, left, right, sign, fs, rp)
    IN  IF DeleteRaises(mdfint, ecg) \/ ind_xs >= Size(xs)
        THEN [err |-> "IndexError", qrs |-> Empty]
        ELSE [err |-> "none", qrs |-> st.maxloc]

\* calculate_jqrs(signal, fs, thr, rp) run alone
Jqrs(signal, fs, thr, rp) == Detect(WfdbRoundTrip(signal), fs, thr, rp)

\* FiducialPoints.jqrs: thr = 0.8, rp = 0.25
JqrsThr == [num |-> 4, den |-> 5]
JqrsRp == [num |-> 1, den |-> 4]

\* calculate_xqrs(signal, fs, n_pools=10): the n_pools of a call that gives none
XqrsNPools == 10

\* processing.xqrs_detect(ecg, fs) of wfdb: its value, kept as the call itself
XqrsDetect(ecg, fs) == <<"xqrs_detect", ecg, fs>>

\* calculate_xqrs from the record read back (lines 217-245): with n_pools > 1
\* line 219 reads the local variable pool, which nothing has assigned yet
Xqrs(ecg, fs, n_pools) ==
    IF n_pools > 1
    THEN [err |-> "UnboundLocalError", qrs |-> Empty]
    ELSE [err |-> "none", qrs |-> XqrsDetect(ecg, fs)]

\* epltd_all(signal, fs) of pebm.ebm.c_files.EpltdAll, the compiled detector:
\* its value, kept as the call itself
epltd_all(sig, f) == <<"epltd_all", sig, f>>

\* wavdet(signal, fs, peaks, matlab_pat) of pebm.ebm.wavedet_exe.Wavdet, the
\* compiled delineator: its value, kept as the call itself
wavdet(sig, f, pk) == <<"wavdet", sig, f, pk>>

\* the dictionaries FiducialPoints.wavedet builds from the value of wavdet
\* (lines 72-106)
Fiducials(mat) == <<"fiducials", mat>>

\* the body of FiducialPoints.epltd (lines 127-143) on a signal of nd
\* dimensions with the columns cols: for a matrix, the zero padded matrix of
\* the peaks of its columns; size_peaks has no axis when there is one column
\* and size_peaks[i] = ... raises IndexError then
EpltdPeaks(nd, cols, f) ==
    IF nd = 2
    THEN IF Size(cols) = 1
         THEN [err |-> "IndexError", val |-> Empty]
         ELSE [err |-> "none",
               val |-> <<"padded", [i \in DOMAIN cols |-> epltd_all(cols[i], f)]>>]
    ELSE [err |-> "none", val |-> epltd_all(cols[0], f)]

\* _check_shape_(signal, fs) of pebm._ErrorHandler: a signal with fewer
\* samples than the integration window is refused
CheckShapeRaises(sig, f) == Size(sig) < INT_NB_COEFF(f)

\* ------------------------------------------------------------------ inputs

\* number of samples of the signals the detector is run on
SigLen == 40
\* number of samples of the signals too short for the percentile rank
ShortLen == 10
\* number of samples of the signals shorter than the window at fs = 128
TinyLen == 3

\* where the pulses of the test signals start, and how many samples they last
PulsePos == {4, 9, 16, 27, 33}
PulseWidth == 2
Amps == {-1, 0, 1, 2}

\* a zero baseline with a pulse of amplitude amp[p] at each p
PulseSignal(n, amp) ==
    [i \in Idx(n) |->
        IF \E p \in DOMAIN amp : p <= i /\ i < p + PulseWidth
        THEN amp[CHOOSE p \in DOMAIN amp : p <= i /\ i < p + PulseWidth]
        ELSE 0]

\* a zero baseline with the value v at a .. b
BlockSignal(n, a, b, v) == [i \in Idx(n) |-> IF a <= i /\ i <= b THEN v ELSE 0]

\* k * signal
Scale(k, sig) == [i \in DOMAIN sig |-> k * sig[i]]

PulseSignals == {PulseSignal(SigLen, amp) : amp \in [PulsePos -> Amps]}

ShortSignals ==
    {PulseSignal(ShortLen, amp) : amp \in [{4} -> Amps]}
        \cup {PulseSignal(TinyLen, amp) : amp \in [{1} -> {0, 1}]}

\* a block of the sentinel, or of half the sentinel, inside the signal and at
\* its end
BlockSignals ==
    {BlockSignal(SigLen, ab[1], ab[2], v) :
        ab \in {<<10, 14>>, <<12, 12>>, <<SigLen - 3, SigLen - 1>>},
        v \in {Sentinel, Sentinel \div 2}}

Rat(n, d) == [num |-> n, den |-> d]

\* direct calls of calculate_jqrs
DirectInputs ==
    {[entry |-> "direct", ndim |-> 1, leads |-> (0 :> s), fs |-> f,
      thr |-> t, rp |-> r] :
        s \in PulseSignals, f \in {32, 64},
        t \in {Rat(4, 5), Rat(2, 5)}, r \in {Rat(1, 4), Rat(1, 8)}}
    \cup
    {[entry |-> "direct", ndim |-> 1, leads |-> (0 :> s), fs |-> f,
      thr |-> t, rp |-> JqrsRp] :
        s \in {x \in PulseSignals : \A i \in DOMAIN x : i > 20 => x[i] = 0},
        f \in {32, 128}, t \in {Rat(0, 1), Rat(-1, 1), Rat(4, 5)}}
    \cup
    {[entry |-> "direct", ndim |-> 1, leads |-> (0 :> s), fs |-> f,
      thr |-> JqrsThr, rp |-> JqrsRp] :
        s \in ShortSignals, f \in {32, 128}}
    \cup
    {[entry |-> "direct", ndim |-> 1, leads |-> (0 :> s), fs |-> 32,
      thr |-> t, rp |-> JqrsRp] :
        s \in BlockSignals, t \in {Rat(4, 5), Rat(1, 1)}}

\* the signals given to the class as one array
OneDim ==
    ShortSignals \cup {x \in PulseSignals : \A i \in DOMAIN x : i > 10 => x[i] = 0}

\* the columns of the signals given to the class as a matrix of leads
LeadSignals ==
    {PulseSignal(SigLen, amp) :
        amp \in {a \in [PulsePos -> {0, 1}] : a[9] = 0 /\ a[33] = 0}}
    \cup {BlockSignal(SigLen, SigLen - 3, SigLen - 1, Sentinel)}

\* signal of shape (n, 1) and of shape (n, 2), as its columns
Matrices ==
    {(0 :> s) : s \in LeadSignals \cup {PulseSignal(ShortLen, (4 :> 1))}}
    \cup {(0 :> s) @@ (1 :> u) : s \in LeadSignals, u \in LeadSignals}
    \cup {(0 :> PulseSignal(ShortLen, (4 :> 1))) @@ (1 :> PulseSignal(ShortLen, (4 :> 0)))}

\* FiducialPoints(signal, fs).jqrs() and FiducialPoints(signal, fs).xqrs()
ClassInputs ==
    {[entry |-> "jqrs", ndim |-> 1, leads |-> (0 :> s), fs |-> f,
      thr |-> JqrsThr, rp |-> JqrsRp] : s \in OneDim, f \in {0, 32, 128}}
    \cup
    {[entry |-> "jqrs", ndim |-> 2, leads |-> m, fs |-> 32,
      thr |-> JqrsThr, rp |-> JqrsRp] : m \in Matrices}
    \cup
    {[entry |-> "xqrs", ndim |-> 1, leads |-> (0 :> s), fs |-> f,
      thr |-> JqrsThr, rp |-> JqrsRp] :
        s \in {PulseSignal(SigLen, (4 :> 1)), PulseSignal(ShortLen, (4 :> 1))},
        f \in {0, 32}}
    \cup
    {[entry |-> "xqrs", ndim |-> 2, leads |-> m, fs |-> 32,
      thr |-> JqrsThr, rp |-> JqrsRp] :
        m \in {(0 :> PulseSignal(SigLen, (4 :> 1))),
               (0 :> PulseSignal(SigLen, (4 :> 1))) @@ (1 :> PulseSignal(SigLen, (16 :> 1)))}}

\* FiducialPoints(signal, fs).epltd and FiducialPoints(signal, fs).wavedet(),
\* the latter with and without the peaks of a reference detector
ExternalInputs ==
    {[entry |-> e, ndim |-> 1, leads |-> (0 :> s), fs |-> f,
      thr |-> JqrsThr, rp |-> JqrsRp, peaks_arg |-> pk] :
        e \in {"epltd", "wavedet"},
        s \in {PulseSignal(SigLen, (4 :> 1)), PulseSignal(ShortLen, (4 :> 1))},
        f \in {0, 32},
        pk \in {Empty, (0 :> 3) @@ (1 :> 9)}}
    \cup
    {[entry |-> e, ndim |-> 2, leads |-> m, fs |-> 32,
      thr |-> JqrsThr, rp |-> JqrsRp, peaks_arg |-> pk] :
        e \in {"epltd", "wavedet"},
        m \in {(0 :> PulseSignal(SigLen, (4 :> 1))),
               (0 :> PulseSignal(SigLen, (4 :> 1))) @@ (1 :> PulseSignal(SigLen, (16 :> 1)))},
        pk \in {Empty, (0 :> 3) @@ (1 :> 9)}}

Inputs ==
    {x \in DirectInputs \cup ClassInputs
            \cup {y \in ExternalInputs : y.entry = "wavedet" \/ y.peaks_arg = Empty} :
        \A c \in DOMAIN x.leads : RoundTripExact(x.leads[c])}

\* ------------------------------------------------------ one call, by stages

VARIABLES
    entry, ndim, leads, fs, peaks_arg,  \* what is called, the signal and its shape
    lead, peaks_dict, self_peaks, result,   \* FiducialPoints.jqrs / xqrs
    signal, thr, rp,                  \* the arguments of the calculate_jqrs call
    pc,                               \* where the call is
    cwd_saved, fl, tmpdirname,        \* the locals cwd, fl, tmpdirname of the call
    ecg, mdfint, ind_xs, en_thres, poss_reg,
    left, right, sign, j, compt, maxval, maxloc,
    qrs_pos, err,                     \* what the call returned or raised
    cwd, dirs, files, ncall,          \* the process: working directory, file system
    tpc, tin, tsaved, tfl, ttmp, thea, tecg, tscan, tout, tcalls, \* its threads' calls
    tstack, tpeaks                    \* their callers' frames, their objects' peaks

given == <<entry, ndim, leads, fs, peaks_arg>>
method == <<lead, peaks_dict, self_peaks, result>>
args == <<signal, thr, rp>>
locals == <<cwd_saved, fl, tmpdirname>>
thresholded == <<ind_xs, en_thres, poss_reg>>
regions == <<left, right, sign>>
peaks == <<j, compt, maxval, maxloc>>
call == <<given, method, args, pc, locals, ecg, mdfint, thresholded, regions,
          peaks, qrs_pos, err, ncall>>
fsys == <<cwd, dirs, files>>
tobj == <<tstack, tpeaks>>
threads == <<tpc, tin, tsaved, tfl, ttmp, thea, tecg, tscan, tout, tcalls, tobj>>
vars == <<call, fsys, threads>>

NoSign == [nan |-> TRUE, twice |-> 0]

\* the threads of the process, the calls one thread makes one after the
\* other, and the calls each of two concurrent threads makes
Threads == {1, 2}
MaxCalls == 2
ProcCalls == 1

\* the directory the process starts in; the temporary directories are
\* numbered from 1, one fresh name for each call of each thread
OrigDir == 0
TmpName(t, n) == 2 * (n - 1) + t
AllDirs == 0 .. TmpName(2, MaxCalls)
NoFile == [hea |-> NoHea, dat |-> NoDat]
NoOutcome == [err |-> "none", qrs |-> Empty]

ProcIdle ==
    /\ cwd = OrigDir
    /\ dirs = {OrigDir}
    /\ files = [d \in AllDirs |-> NoFile]
    /\ ncall = 0
    /\ tpc = [t \in Threads |-> "idle"]
    /\ tin = [t \in Threads |->
                [func |-> "none", signal |-> Empty, fs |-> 32, thr |-> JqrsThr,
                 rp |-> JqrsRp, n_pools |-> XqrsNPools, peaks |-> Empty]]
    /\ tsaved = [t \in Threads |-> OrigDir]
    /\ tfl = [t \in Threads |-> 0]
    /\ ttmp = [t \in Threads |-> OrigDir]
    /\ thea = [t \in Threads |-> NoHea]
    /\ tecg = [t \in Threads |-> Empty]
    /\ tscan = [t \in Threads |-> {}]
    /\ tout = [t \in Threads |-> NoOutcome]
    /\ tcalls = [t \in Threads |-> 0]
    /\ tstack = [t \in Threads |-> << >>]
    /\ tpeaks = [t \in Threads |-> Empty]

CallIdle ==
    /\ lead = 0
    /\ peaks_dict = Empty
    /\ self_peaks = Empty
    /\ result = Empty
    /\ cwd_saved = OrigDir
    /\ fl = 0
    /\ tmpdirname = OrigDir
    /\ ecg = Empty
    /\ mdfint = Empty
    /\ ind_xs = 0
    /\ en_thres = 0
    /\ poss_reg = Empty
    /\ left = Empty
    /\ right = Empty
    /\ sign = NoSign
    /\ j = 0
    /\ compt = 0
    /\ maxval = Empty
    /\ maxloc = Empty
    /\ qrs_pos = Empty
    /\ err = "none"

Init ==
    /\ \E x \in Inputs :
        /\ entry = x.entry
        /\ ndim = x.ndim
        /\ leads = x.leads
        /\ signal = x.leads[0]
        /\ peaks_arg = IF x.entry \in {"epltd", "wavedet"} THEN x.peaks_arg ELSE Empty
        /\ fs = x.fs
        /\ thr = x.thr
        /\ rp = x.rp
    /\ pc = IF entry = "direct" THEN "call" ELSE "construct"
    /\ CallIdle
    /\ ProcIdle

\* the with block left: TemporaryDirectory removes the directory and the
\* record in it (line 276)
Cleanup ==
    /\ dirs' = dirs \ {tmpdirname}
    /\ files' = [files EXCEPT ![tmpdirname] = NoFile]

\* FiducialPoints.__init__ (lines 24-30)
Construct ==
    /\ pc = "construct"
    /\ IF fs <= 0 \/ CheckShapeRaises(signal, fs)
       THEN pc' = "raised" /\ err' = "WrongParameter"
       ELSE pc' = entry /\ err' = err
    /\ self_peaks' = Empty
    /\ UNCHANGED <<given, lead, peaks_dict, result, args, locals, ecg, mdfint,
                   thresholded, regions, peaks, qrs_pos, ncall>>
    /\ UNCHANGED <<fsys, threads>>

\* FiducialPoints.jqrs up to its first call of calculate_jqrs (lines 175-184,
\* 191-193): on the first column of a matrix, or on the one-dimensional signal
JqrsMethod ==
    /\ pc = "jqrs"
    /\ thr' = JqrsThr
    /\ rp' = JqrsRp
    /\ lead' = 0
    /\ peaks_dict' = Empty
    /\ signal' = leads[0]
    /\ pc' = "call"
    /\ UNCHANGED <<given, self_peaks, result, locals, ecg, mdfint, thresholded,
                   regions, peaks, qrs_pos, err, ncall>>
    /\ UNCHANGED <<fsys, threads>>

\* lines 270-287: the working directory saved, the temporary directory made
\* and entered, the signal written there as the record temp and read back
Record ==
    /\ pc = "call"
    /\ IF cwd \in dirs
       THEN cwd_saved' = cwd /\ fl' = 1
       ELSE cwd_saved' = cwd_saved /\ fl' = 0
    /\ ncall' = ncall + 1
    /\ tmpdirname' = TmpName(1, ncall')
    /\ dirs' = dirs \cup {tmpdirname'}
    /\ cwd' = tmpdirname'
    /\ files' = [files EXCEPT
                    ![tmpdirname'] = [hea |-> Header(signal), dat |-> Dat(signal)]]
    /\ ecg' = Dac(files'[tmpdirname'].hea, files'[tmpdirname'].dat)
    /\ pc' = "energy"
    /\ UNCHANGED <<given, method, args, mdfint, thresholded, regions, peaks,
                   qrs_pos, err>>
    /\ UNCHANGED threads

\* lines 288-298
EnergyStage ==
    /\ pc = "energy"
    /\ mdfint' = Energy(ecg, fs)
    /\ pc' = "threshold"
    /\ UNCHANGED <<given, method, args, locals, ecg, thresholded, regions, peaks,
                   qrs_pos, err, ncall>>
    /\ UNCHANGED <<fsys, threads>>

\* lines 300-307; np.delete and xs[ind_xs] raise IndexError, which leaves the
\* with block and skips lines 374-375
Threshold ==
    /\ pc = "threshold"
    /\ IF DeleteRaises(mdfint, ecg) \/ IndXs(Size(mdfint)) >= Size(mdfint)
       THEN /\ pc' = "raised"
            /\ err' = "IndexError"
            /\ Cleanup
            /\ UNCHANGED thresholded
       ELSE /\ ind_xs' = IndXs(Size(mdfint))
            /\ en_thres' = Xs(mdfint)[ind_xs']
            /\ poss_reg' = PossReg(mdfint, thr, en_thres')
            /\ pc' = "searchback"
            /\ err' = err
            /\ UNCHANGED <<dirs, files>>
    /\ UNCHANGED <<given, method, args, locals, ecg, mdfint, regions, peaks,
                   qrs_pos, ncall>>
    /\ UNCHANGED <<cwd, threads>>

\* lines 311-327
SearchBackStage ==
    /\ pc = "searchback"
    /\ poss_reg' = SearchBack(poss_reg, mdfint, thr, en_thres, fs)
    /\ pc' = "regions"
    /\ UNCHANGED <<given, method, args, locals, ecg, mdfint, ind_xs, en_thres,
                   regions, peaks, qrs_pos, err, ncall>>
    /\ UNCHANGED <<fsys, threads>>

\* lines 328-345
Regions ==
    /\ pc = "regions"
    /\ left' = Left(poss_reg)
    /\ right' = Right(poss_reg)
    /\ sign' = Sign(ecg, left', right')
    /\ j' = 0
    /\ compt' = LoopInit(Size(left')).compt
    /\ maxval' = LoopInit(Size(left')).maxval
    /\ maxloc' = LoopInit(Size(left')).maxloc
    /\ pc' = "loop"
    /\ UNCHANGED <<given, method, args, locals, ecg, mdfint, thresholded,
                   qrs_pos, err, ncall>>
    /\ UNCHANGED <<fsys, threads>>

\* one pass of the loop of lines 346-372
PeakPass ==
    /\ pc = "loop"
    /\ j < Size(left)
    /\ LET st == PeakStep([compt |-> compt, maxval |-> maxval, maxloc |-> maxloc],
                          j, ecg, left, right, sign, fs, rp)
       IN  /\ compt' = st.compt
           /\ maxval' = st.maxval
           /\ maxloc' = st.maxloc
    /\ j' = j + 1
    /\ UNCHANGED <<given, method, args, pc, locals, ecg, mdfint, thresholded,
                   regions, qrs_pos, err, ncall>>
    /\ UNCHANGED <<fsys, threads>>

\* lines 373-376: qrs_pos taken, the with block left, the saved working
\* directory entered again when there is one
Return ==
    /\ pc = "loop"
    /\ j >= Size(left)
    /\ qrs_pos' = maxloc
    /\ Cleanup
    /\ IF fl = 1 /\ cwd_saved \notin dirs'
       THEN pc' = "raised" /\ err' = "FileNotFoundError" /\ cwd' = cwd
       ELSE /\ pc' = "done"
            /\ err' = err
            /\ cwd' = IF fl = 1 THEN cwd_saved ELSE cwd
    /\ UNCHANGED <<given, method, args, locals, ecg, mdfint, thresholded, regions,
                   peaks, ncall>>
    /\ UNCHANGED threads

\* the zero padded matrix of lines 187-190: one column for each lead
PaddedPeaks(dict) ==
    LET ecg_num == Size(dict)
        max_sp == IF ecg_num = 0 THEN 0
                  ELSE ArrMax([i \in Idx(ecg_num) |-> Size(dict[i])])
    IN  [r \in Idx(max_sp) |->
            [i \in Idx(ecg_num) |-> IF r < Size(dict[i]) THEN dict[i][r] ELSE 0]]

\* FiducialPoints.jqrs after calculate_jqrs returned for a column (lines
\* 185-186 and the next pass of the loop of line 182): size_peaks is
\* np.zeros([1, ecg_num]).squeeze(), which has no axis when ecg_num is 1, and
\* size_peaks[i] = ... raises IndexError then
JqrsCollect ==
    /\ pc = "done"
    /\ entry = "jqrs"
    /\ ndim = 2
    /\ peaks_dict' = peaks_dict @@ (lead :> qrs_pos)
    /\ IF Size(leads) = 1
       THEN /\ pc' = "jqrs_raised"
            /\ err' = "IndexError"
            /\ UNCHANGED <<lead, signal, locals, ecg, mdfint, thresholded, regions,
                           peaks, qrs_pos>>
       ELSE IF lead + 1 < Size(leads)
            THEN /\ lead' = lead + 1
                 /\ signal' = leads[lead + 1]
                 /\ pc' = "call"
                 /\ cwd_saved' = OrigDir /\ fl' = 0 /\ tmpdirname' = OrigDir
                 /\ ecg' = Empty /\ mdfint' = Empty
                 /\ ind_xs' = 0 /\ en_thres' = 0 /\ poss_reg' = Empty
                 /\ left' = Empty /\ right' = Empty /\ sign' = NoSign
                 /\ j' = 0 /\ compt' = 0 /\ maxval' = Empty /\ maxloc' = Empty
                 /\ qrs_pos' = Empty
                 /\ err' = err
            ELSE /\ pc' = "pad"
                 /\ err' = err
                 /\ UNCHANGED <<lead, signal, locals, ecg, mdfint, thresholded,
                                regions, peaks, qrs_pos>>
    /\ UNCHANGED <<given, self_peaks, result, thr, rp, ncall>>
    /\ UNCHANGED <<fsys, threads>>

\* FiducialPoints.jqrs to its return: the padded matrix of lines 187-190, or
\* the peaks of the one-dimensional signal (line 193); lines 194-195
JqrsReturn ==
    /\ entry = "jqrs"
    /\ pc = "pad" \/ (pc = "done" /\ ndim = 1)
    /\ result' = IF pc = "pad" THEN PaddedPeaks(peaks_dict) ELSE qrs_pos
    /\ self_peaks' = result'
    /\ pc' = "returned"
    /\ UNCHANGED <<given, lead, peaks_dict, args, locals, ecg, mdfint, thresholded,
                   regions, peaks, qrs_pos, err, ncall>>
    /\ UNCHANGED <<fsys, threads>>

\* FiducialPoints.xqrs (lines 150-171): calculate_xqrs(signal, fs), lines
\* 198-249, on the first column or the one-dimensional signal, with the
\* n_pools of its signature; the exception of line 219 leaves the with block
\* and skips os.chdir(cwd)
XqrsMethod ==
    /\ pc = "xqrs"
    /\ signal' = leads[0]
    /\ lead' = 0
    /\ IF cwd \in dirs
       THEN cwd_saved' = cwd /\ fl' = 1
       ELSE cwd_saved' = cwd_saved /\ fl' = 0
    /\ ncall' = ncall + 1
    /\ tmpdirname' = TmpName(1, ncall')
    /\ ecg' = WfdbRoundTrip(signal')
    /\ err' = Xqrs(ecg', fs, XqrsNPools).err
    /\ cwd' = tmpdirname'
    /\ pc' = "xqrs_raised"
    /\ UNCHANGED <<given, peaks_dict, self_peaks, result, thr, rp, mdfint,
                   thresholded, regions, peaks, qrs_pos>>
    /\ UNCHANGED <<dirs, files, threads>>

\* FiducialPoints.epltd (lines 111-148): the working directory saved, the
\* peaks of epltd_all, the saved working directory entered again
Epltd ==
    /\ pc = "epltd"
    /\ IF cwd \in dirs
       THEN cwd_saved' = cwd /\ fl' = 1
       ELSE cwd_saved' = cwd_saved /\ fl' = 0
    /\ LET r == EpltdPeaks(ndim, leads, fs)
       IN  IF r.err # "none"
           THEN /\ pc' = "epltd_raised"
                /\ err' = r.err
                /\ result' = result
                /\ cwd' = cwd
           ELSE /\ pc' = "returned"
                /\ err' = err
                /\ result' = r.val
                /\ cwd' = IF fl' = 1 THEN cwd_saved' ELSE cwd
    /\ UNCHANGED <<given, lead, peaks_dict, self_peaks, args, tmpdirname, ecg,
                   mdfint, thresholded, regions, peaks, qrs_pos, ncall>>
    /\ UNCHANGED <<dirs, files, threads>>

\* FiducialPoints.wavedet (lines 36-109): the working directory saved, the
\* peaks given or else those of self.epltd kept in self.peaks, the
\* dictionaries of wavdet, the saved working directory entered again
Wavedet ==
    /\ pc = "wavedet"
    /\ IF cwd \in dirs
       THEN cwd_saved' = cwd /\ fl' = 1
       ELSE cwd_saved' = cwd_saved /\ fl' = 0
    /\ LET r == IF Size(peaks_arg) = 0
                THEN EpltdPeaks(ndim, leads, fs)
                ELSE [err |-> "none", val |-> peaks_arg]
       IN  IF r.err # "none"
           THEN /\ pc' = "wavedet_raised"
                /\ err' = r.err
                /\ UNCHANGED <<self_peaks, result>>
                /\ cwd' = cwd
           ELSE /\ pc' = "returned"
                /\ err' = err
                /\ self_peaks' = r.val
                /\ result' = Fiducials(wavdet(IF ndim = 2 THEN leads ELSE leads[0],
                                              fs, r.val))
                /\ cwd' = IF fl' = 1 THEN cwd_saved' ELSE cwd
    /\ UNCHANGED <<given, lead, peaks_dict, args, tmpdirname, ecg, mdfint,
                   thresholded, regions, peaks, qrs_pos, ncall>>
    /\ UNCHANGED <<dirs, files, threads>>

Next ==
    \/ Construct
    \/ JqrsMethod
    \/ Record
    \/ EnergyStage
    \/ Threshold
    \/ SearchBackStage
    \/ Regions
    \/ PeakPass
    \/ Return
    \/ JqrsCollect
    \/ JqrsReturn
    \/ XqrsMethod
    \/ Epltd
    \/ Wavedet

Spec == Init /\ [][Next]_vars

\* what the call ended with
Outcome == [err |-> err, qrs |-> qrs_pos]

\* ------------------------------------------------- properties of one call

Returned == pc = "done"
Ended == pc \in {"done", "raised"}
PastThreshold == pc \in {"searchback", "regions", "loop", "done"}
PastSearchBack == pc \in {"regions", "loop", "done"}

\* fs > 0, thr > 0 and a signal at least as long as the integration window
ValidInput == fs > 0 /\ thr.num > 0 /\ Size(signal) >= INT_NB_COEFF(fs)

\* C1: the returned peak indices are strictly increasing and no two
\* consecutive ones are closer than rp * fs samples
C1_RefractoryInvariant ==
    Returned /\ fs > 0 /\ rp.num > 0 =>
        \A i \in Idx(Size(qrs_pos) - 1) :
            /\ qrs_pos[i + 1] > qrs_pos[i]
            /\ (qrs_pos[i + 1] - qrs_pos[i]) * rp.den >= rp.num * fs

\* C1 witness: a call that returned several peaks after consolidating others
C1_Witness ==
    /\ Returned
    /\ rp.num > 0
    /\ Size(qrs_pos) >= 3
    /\ Size(left) > Size(qrs_pos)

\* C2: a call with fs <= 0, thr <= 0 or a signal shorter than the integration
\* window ends with the parameter error, never with peaks or another error
C2_ParameterError ==
    (fs <= 0 \/ thr.num <= 0 \/ Size(signal) < INT_NB_COEFF(fs)) =>
        /\ ~Returned
        /\ pc = "raised" => err = "WrongParameter"

\* the mask of the primary threshold, before the search back
PrimaryMask == PossReg(mdfint, thr, en_thres)

\* C3: a valid call on a flat line, or one whose primary mask is empty or
\* whose RR median is undefined, returns the empty sequence and raises nothing
C3_EmptyOnDegenerate ==
    /\ (ValidInput /\ Ended /\ \A i \in DOMAIN signal : signal[i] = signal[0]) =>
            Outcome = [err |-> "none", qrs |-> Empty]
    /\ (ValidInput /\ Returned
            /\ (IndAbove(PrimaryMask) = Empty \/ MedRRv(PrimaryMask, fs).nan)) =>
            Outcome = [err |-> "none", qrs |-> Empty]

\* C4: with sentinel samples in the signal the call raises nothing, en_thres
\* is the percentile of the envelope without the sentinel positions, and no
\* returned peak is a sentinel sample
C4_SentinelExcluded ==
    SentinelWhere(signal) # {} =>
        /\ pc # "raised"
        /\ PastThreshold =>
            LET env == MdfintExcluded(mdfint, ecg)
            IN  /\ IndXs(Size(env)) < Size(env)
                /\ en_thres = Sort(env)[IndXs(Size(env))]
        /\ Returned => \A i \in DOMAIN qrs_pos : qrs_pos[i] \notin SentinelWhere(signal)

\* the signals whose double stays inside the 16-bit range
Scalable(sig) == \A i \in DOMAIN sig : 2 * Abs(sig[i]) <= -Sentinel

\* C5: the call on the doubled signal ends as the call on the signal did
C5_ScaleInvariant ==
    (Ended /\ entry = "direct" /\ Scalable(signal)) =>
        Jqrs(Scale(2, signal), fs, thr, rp) = Outcome

\* the gaps the search back flags in a mask: consecutive above-threshold
\* indices more than 1.5 medians apart
FlaggedGaps(mask) ==
    LET above == IndAbove(mask)
        med == MedRRv(mask, fs)
    IN  {<<above[k], above[k + 1]>> : k \in
            {k \in Idx(Size(above) - 1) :
                ~med.nan /\ 4 * (above[k + 1] - above[k]) > 3 * med.twice}}

\* C7: just after the search back, every sample of the primary mask is still
\* marked, the mask equals OR-ing the lowered-threshold test into the primary
\* mask inside the flagged gaps, and every sample outside them is as it was
C7_SearchBackOnlyAdds ==
    pc = "regions" =>
        LET prim == PrimaryMask
            gaps == FlaggedGaps(prim)
            inGap == {i \in DOMAIN prim : \E g \in gaps : g[1] <= i /\ i <= g[2]}
        IN  \A i \in DOMAIN poss_reg :
                /\ prim[i] => poss_reg[i]
                /\ poss_reg[i] =
                    (prim[i] \/ (i \in inGap /\ Lowered(mdfint, thr, en_thres, i)))
                /\ i \notin inGap => poss_reg[i] = prim[i]

\* C7 witness: the search back flagged a gap and marked a sample inside it
C7_Witness ==
    /\ pc = "regions"
    /\ LET prim == PrimaryMask
       IN  /\ FlaggedGaps(prim) # {}
           /\ \E i \in DOMAIN poss_reg : poss_reg[i] /\ ~prim[i]

\* C8: en_thres is the entry of rank floor(0.98 * N) of the sorted envelope
\* without the sentinel positions, N its length, and the rank is below N
C8_PercentileRank ==
    (pc \in {"searchback", "regions", "loop", "done", "raised"}
        /\ err # "WrongParameter") =>
        LET env == MdfintExcluded(mdfint, ecg)
            n == Size(env)
            rank == (98 * n) \div 100
        IN  n >= 1 =>
                /\ rank < n
                /\ pc # "raised"
                /\ en_thres = Sort(env)[rank]

\* the candidate of region k: the extremum of the polarity sign chose
CandLoc(k) ==
    left[k] + (IF Positive(sign) THEN ArgMax(ecg, left[k], right[k])
               ELSE ArgMin(ecg, left[k], right[k]))

CandVal(k) == ecg[CandLoc(k)]

\* the reference reduction over the first n candidates: the retained
\* candidates as a sequence of [loc, val]
RECURSIVE Reduction(_)
Reduction(n) ==
    IF n = 0 THEN << >>
    ELSE LET kept == Reduction(n - 1)
             new == [loc |-> CandLoc(n - 1), val |-> CandVal(n - 1)]
             last == kept[Len(kept)]
         IN  IF kept = << >> THEN <<new>>
             ELSE IF (new.loc - last.loc) * rp.den >= rp.num * fs
                  THEN Append(kept, new)
                  ELSE IF Abs(new.val) < Abs(last.val) THEN kept
                       ELSE [kept EXCEPT ![Len(kept)] = new]

\* C9: after j passes the first compt entries of the arrays are the reference
\* reduction of the first j candidates, and the returned array has one entry
\* per retained candidate
C9_LoopIsReduction ==
    pc \in {"loop", "done"} =>
        LET kept == Reduction(j)
        IN  /\ compt = Len(kept)
            /\ \A i \in Idx(compt) :
                    maxloc[i] = kept[i + 1].loc /\ maxval[i] = kept[i + 1].val
            /\ Returned => Size(qrs_pos) = Len(kept) /\ j = Size(left)

\* C9 witness: a returned call in which candidates were both appended and
\* consolidated
C9_Witness ==
    /\ Returned
    /\ Size(qrs_pos) >= 2
    /\ Size(left) >= Size(qrs_pos) + 2
    /\ \E i \in DOMAIN qrs_pos : ecg[qrs_pos[i]] # 0

\* ----------------------------------- the calls of the threads of one process

\* the calls one thread makes one after the other: calculate_jqrs on two
\* signals with peaks, on a flat line and on a short signal
SeqInputs ==
    {[func |-> "jqrs", signal |-> x, fs |-> 32, thr |-> JqrsThr, rp |-> JqrsRp,
      n_pools |-> XqrsNPools, peaks |-> Empty] :
        x \in {PulseSignal(SigLen, (4 :> 1) @@ (16 :> 1) @@ (27 :> 1)),
               PulseSignal(SigLen, (9 :> -1) @@ (33 :> -1)),
               PulseSignal(SigLen, (4 :> 0)),
               PulseSignal(ShortLen, (4 :> 1))}}

\* the calls two concurrent threads make: calculate_jqrs on two signals of
\* the same length, calculate_xqrs with and without a pool, and the epltd
\* and wavedet of a FiducialPoints object, wavedet with and without peaks
ProcInputs ==
    {[func |-> "jqrs", signal |-> x, fs |-> 32, thr |-> JqrsThr, rp |-> JqrsRp,
      n_pools |-> XqrsNPools, peaks |-> Empty] :
        x \in {PulseSignal(SigLen, (4 :> 1) @@ (16 :> 1) @@ (27 :> 1)),
               PulseSignal(SigLen, (9 :> -1) @@ (33 :> -1))}}
    \cup
    {[func |-> "xqrs", signal |-> PulseSignal(SigLen, (4 :> 1) @@ (16 :> 1) @@ (27 :> 1)),
      fs |-> 32, thr |-> JqrsThr, rp |-> JqrsRp, n_pools |-> n, peaks |-> Empty] :
        n \in {XqrsNPools, 1}}
    \cup
    {[func |-> f, signal |-> PulseSignal(SigLen, (4 :> 1) @@ (16 :> 1) @@ (27 :> 1)),
      fs |-> 32, thr |-> JqrsThr, rp |-> JqrsRp, n_pools |-> XqrsNPools,
      peaks |-> pk] :
        f \in {"epltd", "wavedet"},
        pk \in {Empty, (0 :> 3) @@ (1 :> 9)}}

\* whatever header and samples file of these calls meet in one directory,
\* the record read is integer valued
Readable(X) ==
    \A x \in X, y \in X : DacExact(Header(x.signal), Dat(y.signal))

\* a thread calls calculate_jqrs or calculate_xqrs, or the epltd or wavedet
\* of a FiducialPoints object it has made for the signal
Call(t, X, max) ==
    /\ tpc[t] \in {"idle", "returned", "raised"}
    /\ tcalls[t] < max
    /\ \E x \in X : tin' = [tin EXCEPT ![t] = x]
    /\ tcalls' = [tcalls EXCEPT ![t] = @ + 1]
    /\ tout' = [tout EXCEPT ![t] = NoOutcome]
    /\ tecg' = [tecg EXCEPT ![t] = Empty]
    /\ thea' = [thea EXCEPT ![t] = NoHea]
    /\ tpc' = [tpc EXCEPT ![t] =
                    CASE tin'[t].func = "epltd" -> "e_getcwd"
                      [] tin'[t].func = "wavedet" -> "w_getcwd"
                      [] OTHER -> "getcwd"]
    /\ tstack' = [tstack EXCEPT ![t] = << >>]
    /\ tpeaks' = [tpeaks EXCEPT ![t] = Empty]
    /\ UNCHANGED <<call, fsys, tsaved, tfl, ttmp, tscan>>

\* lines 270-275 (199-204, 120-124, 55-60): the working directory saved in
\* the local cwd of the function; os.getcwd() raises when it is gone.  The
\* epltd that wavedet calls has locals of its own
Getcwd(t) ==
    /\ tpc[t] \in {"getcwd", "e_getcwd", "w_getcwd"}
    /\ tstack' = [tstack EXCEPT ![t] =
                    IF tpc[t] = "e_getcwd" /\ tin[t].func = "wavedet"
                    THEN <<[saved |-> tsaved[t], fl |-> tfl[t]]>> \o @
                    ELSE @]
    /\ IF cwd \in dirs
       THEN tsaved' = [tsaved EXCEPT ![t] = cwd] /\ tfl' = [tfl EXCEPT ![t] = 1]
       ELSE tsaved' = tsaved /\ tfl' = [tfl EXCEPT ![t] = 0]
    /\ tpc' = [tpc EXCEPT ![t] =
                    CASE tpc[t] = "getcwd" -> "tempdir"
                      [] tpc[t] = "e_getcwd" -> "e_ext"
                      [] OTHER -> IF Size(tin[t].peaks) = 0 THEN "e_getcwd" ELSE "w_ext"]
    /\ UNCHANGED <<call, fsys, tin, ttmp, thea, tecg, tscan, tout, tcalls, tpeaks>>

\* line 276 (205): tempfile.TemporaryDirectory() makes a fresh directory
TempDir(t) ==
    /\ tpc[t] = "tempdir"
    /\ ttmp' = [ttmp EXCEPT ![t] = TmpName(t, tcalls[t])]
    /\ dirs' = dirs \cup {ttmp'[t]}
    /\ tpc' = [tpc EXCEPT ![t] = "chdir"]
    /\ UNCHANGED tobj
    /\ UNCHANGED <<call, cwd, files, tin, tsaved, tfl, thea, tecg, tscan, tout, tcalls>>

\* line 277 (206): os.chdir(tmpdirname)
Chdir(t) ==
    /\ tpc[t] = "chdir"
    /\ cwd' = ttmp[t]
    /\ tpc' = [tpc EXCEPT ![t] = "wrsamp"]
    /\ UNCHANGED tobj
    /\ UNCHANGED <<call, dirs, files, tin, tsaved, tfl, ttmp, thea, tecg, tscan,
                   tout, tcalls>>

\* lines 278-285 (207-214), first file: wfdb.wrsamp writes the header
\* temp.hea in the working directory of that moment
WrHeader(t) ==
    /\ tpc[t] = "wrsamp"
    /\ IF cwd \in dirs
       THEN /\ files' = [files EXCEPT ![cwd].hea = Header(tin[t].signal)]
            /\ tpc' = [tpc EXCEPT ![t] = "wrdat"]
            /\ tout' = tout
       ELSE /\ files' = files
            /\ tpc' = [tpc EXCEPT ![t] = "exit"]
            /\ tout' = [tout EXCEPT ![t] = [err |-> "FileNotFoundError", qrs |-> Empty]]
    /\ UNCHANGED tobj
    /\ UNCHANGED <<call, cwd, dirs, tin, tsaved, tfl, ttmp, thea, tecg, tscan, tcalls>>

\* lines 278-285 (207-214), second file: wfdb.wrsamp writes the samples
\* temp.dat in the working directory of that moment
WrDat(t) ==
    /\ tpc[t] = "wrdat"
    /\ IF cwd \in dirs
       THEN /\ files' = [files EXCEPT ![cwd].dat = Dat(tin[t].signal)]
            /\ tpc' = [tpc EXCEPT ![t] = "rdrecord"]
            /\ tout' = tout
       ELSE /\ files' = files
            /\ tpc' = [tpc EXCEPT ![t] = "exit"]
            /\ tout' = [tout EXCEPT ![t] = [err |-> "FileNotFoundError", qrs |-> Empty]]
    /\ UNCHANGED tobj
    /\ UNCHANGED <<call, cwd, dirs, tin, tsaved, tfl, ttmp, thea, tecg, tscan, tcalls>>

\* line 286 (215), first file: wfdb.rdrecord reads the header
\* tmpdirname + "/temp.hea"
RdHeader(t) ==
    /\ tpc[t] = "rdrecord"
    /\ LET hea == files[ttmp[t]].hea
       IN  IF hea.present
           THEN /\ thea' = [thea EXCEPT ![t] = hea]
                /\ tpc' = [tpc EXCEPT ![t] = "rddat"]
                /\ tout' = tout
           ELSE /\ thea' = thea
                /\ tpc' = [tpc EXCEPT ![t] = "exit"]
                /\ tout' = [tout EXCEPT ![t] =
                                [err |-> "FileNotFoundError", qrs |-> Empty]]
    /\ UNCHANGED tobj
    /\ UNCHANGED <<call, fsys, tin, tsaved, tfl, ttmp, tecg, tscan, tcalls>>

\* lines 286-287 (215-216), second file: wfdb.rdrecord reads the samples
\* tmpdirname + "/temp.dat" and converts them with the header it has read
RdDat(t) ==
    /\ tpc[t] = "rddat"
    /\ LET dat == files[ttmp[t]].dat
       IN  IF dat.present
           THEN /\ tecg' = [tecg EXCEPT ![t] = Dac(thea[t], dat)]
                /\ tpc' = [tpc EXCEPT ![t] = "detect"]
                /\ tout' = tout
           ELSE /\ tecg' = tecg
                /\ tpc' = [tpc EXCEPT ![t] = "exit"]
                /\ tout' = [tout EXCEPT ![t] =
                                [err |-> "FileNotFoundError", qrs |-> Empty]]
    /\ UNCHANGED tobj
    /\ UNCHANGED <<call, fsys, tin, tsaved, tfl, ttmp, thea, tscan, tcalls>>

\* lines 288-373 (217-245) on the record read
Compute(t) ==
    /\ tpc[t] = "detect"
    /\ tout' = [tout EXCEPT ![t] =
                    IF tin[t].func = "xqrs"
                    THEN Xqrs(tecg[t], tin[t].fs, tin[t].n_pools)
                    ELSE Detect(tecg[t], tin[t].fs, tin[t].thr, tin[t].rp)]
    /\ tpc' = [tpc EXCEPT ![t] = "exit"]
    /\ UNCHANGED tobj
    /\ UNCHANGED <<call, fsys, tin, tsaved, tfl, ttmp, thea, tecg, tscan, tcalls>>

\* the with block left, by its end or by an exception (line 276 (205)):
\* TemporaryDirectory.cleanup lists the entries of the directory
ExitScan(t) ==
    /\ tpc[t] = "exit"
    /\ tscan' = [tscan EXCEPT ![t] =
                    {f \in {"hea", "dat"} : files[ttmp[t]][f].present}]
    /\ tpc' = [tpc EXCEPT ![t] = "unlink"]
    /\ UNCHANGED tobj
    /\ UNCHANGED <<call, fsys, tin, tsaved, tfl, ttmp, thea, tecg, tout, tcalls>>

\* cleanup unlinks one of the entries it has listed, in the order the
\* directory gave them
Unlink(t) ==
    /\ tpc[t] = "unlink"
    /\ \E f \in tscan[t] :
        /\ files' = [files EXCEPT ![ttmp[t]][f] = IF f = "hea" THEN NoHea ELSE NoDat]
        /\ tscan' = [tscan EXCEPT ![t] = @ \ {f}]
    /\ UNCHANGED tobj
    /\ UNCHANGED <<call, cwd, dirs, tpc, tin, tsaved, tfl, ttmp, thea, tecg, tout, tcalls>>

\* cleanup removes the directory: os.rmdir raises OSError when a file has
\* appeared in it meanwhile, the directory stays and the exception goes to
\* the caller, as does one raised inside the block
Rmdir(t) ==
    /\ tpc[t] = "unlink"
    /\ tscan[t] = {}
    /\ IF files[ttmp[t]] = NoFile
       THEN /\ dirs' = dirs \ {ttmp[t]}
            /\ tpc' = [tpc EXCEPT ![t] =
                            IF tout[t].err = "none" THEN "restore" ELSE "raised"]
            /\ tout' = tout
       ELSE /\ dirs' = dirs
            /\ tpc' = [tpc EXCEPT ![t] = "raised"]
            /\ tout' = [tout EXCEPT ![t] = [err |-> "OSError", qrs |-> Empty]]
    /\ UNCHANGED tobj
    /\ UNCHANGED <<call, cwd, files, tin, tsaved, tfl, ttmp, thea, tecg, tscan, tcalls>>

\* lines 374-376 (247-249, 145-148, 107-109): if fl: os.chdir(cwd); return.
\* The epltd that wavedet called returns into wavedet
Restore(t) ==
    /\ tpc[t] \in {"restore", "e_restore", "w_restore"}
    /\ IF tfl[t] = 1 /\ tsaved[t] \notin dirs
       THEN /\ tpc' = [tpc EXCEPT ![t] = "raised"]
            /\ tout' = [tout EXCEPT ![t] = [err |-> "FileNotFoundError", qrs |-> Empty]]
            /\ cwd' = cwd
            /\ UNCHANGED <<tsaved, tfl, tstack>>
       ELSE /\ cwd' = IF tfl[t] = 1 THEN tsaved[t] ELSE cwd
            /\ tout' = tout
            /\ IF tpc[t] = "e_restore" /\ tin[t].func = "wavedet"
               THEN /\ tpc' = [tpc EXCEPT ![t] = "w_ext"]
                    /\ tsaved' = [tsaved EXCEPT ![t] = Head(tstack[t]).saved]
                    /\ tfl' = [tfl EXCEPT ![t] = Head(tstack[t]).fl]
                    /\ tstack' = [tstack EXCEPT ![t] = Tail(@)]
               ELSE /\ tpc' = [tpc EXCEPT ![t] = "returned"]
                    /\ UNCHANGED <<tsaved, tfl, tstack>>
    /\ UNCHANGED <<call, dirs, files, tin, ttmp, thea, tecg, tscan, tcalls, tpeaks>>

\* lines 127-143 of FiducialPoints.epltd: the call of epltd_all
EpltdExt(t) ==
    /\ tpc[t] = "e_ext"
    /\ LET r == EpltdPeaks(1, (0 :> tin[t].signal), tin[t].fs)
       IN  /\ tout' = [tout EXCEPT ![t] = [err |-> r.err, qrs |-> r.val]]
           /\ tpc' = [tpc EXCEPT ![t] = IF r.err = "none" THEN "e_restore" ELSE "raised"]
    /\ UNCHANGED tobj
    /\ UNCHANGED <<call, fsys, tin, tsaved, tfl, ttmp, thea, tecg, tscan, tcalls>>

\* lines 69-106 of FiducialPoints.wavedet: self.peaks = peaks, the peaks
\* given or those self.epltd returned; the call of wavdet and its dictionaries
WavdetExt(t) ==
    /\ tpc[t] = "w_ext"
    /\ LET pk == IF Size(tin[t].peaks) = 0 THEN tout[t].qrs ELSE tin[t].peaks
       IN  /\ tpeaks' = [tpeaks EXCEPT ![t] = pk]
           /\ tout' = [tout EXCEPT ![t] =
                        [err |-> "none",
                         qrs |-> Fiducials(wavdet(tin[t].signal, tin[t].fs, pk))]]
    /\ tpc' = [tpc EXCEPT ![t] = "w_restore"]
    /\ UNCHANGED <<call, fsys, tin, tsaved, tfl, ttmp, thea, tecg, tscan, tcalls, tstack>>

ProcInit ==
    /\ entry = "direct"
    /\ ndim = 1
    /\ leads = (0 :> Empty)
    /\ peaks_arg = Empty
    /\ signal = Empty
    /\ fs = 32
    /\ thr = JqrsThr
    /\ rp = JqrsRp
    /\ pc = "idle"
    /\ CallIdle
    /\ ProcIdle
    /\ Readable({x \in ProcInputs : x.func \in {"jqrs", "xqrs"}})

\* the steps of a call of calculate_jqrs or calculate_xqrs by a thread
Step(t) ==
    \/ Getcwd(t)
    \/ TempDir(t)
    \/ Chdir(t)
    \/ WrHeader(t)
    \/ WrDat(t)
    \/ RdHeader(t)
    \/ RdDat(t)
    \/ Compute(t)
    \/ ExitScan(t)
    \/ Unlink(t)
    \/ Rmdir(t)
    \/ Restore(t)

\* the calls of one thread, one after the other
SeqNext ==
    \/ Call(1, SeqInputs, MaxCalls)
    \/ Step(1)

SpecSeq == ProcInit /\ [][SeqNext]_vars

\* the calls of two threads, interleaved at every step
ProcNext ==
    \E t \in Threads :
        \/ Call(t, {x \in ProcInputs : x.func = "wavedet" \/ x.peaks = Empty},
                ProcCalls)
        \/ Step(t)
        \/ EpltdExt(t)
        \/ WavdetExt(t)

SpecProc == ProcInit /\ [][ProcNext]_vars

\* ------------------------------------------- properties of the process

\* C6: when the calls of the threads are calls of the detector, a call that
\* ended, whatever the other thread did meanwhile, ended as the same call
\* ends when it runs alone
C6_CallsIndependent ==
    (\A u \in Threads : tin[u].func \in {"none", "jqrs"}) =>
        \A t \in Threads :
            tpc[t] \in {"returned", "raised"} =>
                tout[t] = Jqrs(tin[t].signal, tin[t].fs, tin[t].thr, tin[t].rp)

\* C10: between the calculate_jqrs calls of one thread the working directory
\* is the one the process started in, and it exists
C10_CwdRestored ==
    tpc[1] \in {"idle", "returned", "raised"} => cwd = OrigDir /\ cwd \in dirs

====
